---- MODULE Spec2Model ----
(***************************************************************************)
(* State-machine model of three wrapper classes of the rendering layer:    *)
(*   - Ogre2GlobalIlluminationVct instances sharing one Ogre::HlmsPbs      *)
(*     (specification Spec),                                               *)
(*   - one Ogre2GpuRays sensor and the engine objects it registers         *)
(*     (specification SpecRays),                                           *)
(*   - one Ogre2NativeWindow and the cameras drawn to it                   *)
(*     (specification SpecWin).                                            *)
(* The three object families do not touch each other's state, so each is   *)
(* explored by its own next-state relation over the common variables.      *)
(* GZ_ASSERT is modelled with assertions enabled: a failed assertion       *)
(* aborts the process.  A dereference of a null pointer ends the process   *)
(* as well.  The cone count HlmsPbs derives from highQuality               *)
(* (setVctFullConeCount) plays no part in which lighting is bound and is   *)
(* not part of the modelled state.                                         *)
(***************************************************************************)
EXTENDS Integers, Sequences, FiniteSets, TLC

(* ---------------------------- bounds ----------------------------------- *)
\* number of Ogre2GlobalIlluminationVct instances
NumInst == 2
\* number of heap addresses operator new can hand out
MaxAddr == 4

\* cube faces the sample texture may refer to are 0..MaxFace
MaxFace == 2
\* RangeCount() of the sensor is in 1..MaxRangeCount
MaxRangeCount == 2
\* VerticalRangeCount() of the sensor is in 1..MaxVerticalRangeCount
MaxVerticalRangeCount == 1
\* float values a rendered pixel channel may take are 0..MaxPixel
MaxPixel == 1
\* number of callbacks that may be connected to newGpuRaysFrame
MaxSubscribers == 2
\* number of Ogre2Camera objects that may be drawn to the window
NumCams == 2
\* number of addresses addWorkspace can hand out for the window's workspaces
MaxWsAddr == 2
\* RequestResolution is called with width and height in 1..MaxRes
MaxRes == 2

Inst == 1..NumInst
Addr == 1..MaxAddr
\* nullptr
Null == 0

MsgAlreadyActive == "There's already an active GI solution!"
MsgNotUs == "There's an active GI solution but isn't us!"
MsgDidYouCallBuild == "Incorrect usage detected. Did you call Build?"
MsgNullDeref == "null pointer dereference"
NoAbort == "running"

VARIABLES
  \* Ogre2GlobalIlluminationVctPrivate::voxelizer, per instance
  voxelizer,
  \* Ogre2GlobalIlluminationVctPrivate::vctLighting, per instance
  vctLighting,
  \* Ogre::HlmsPbs: what getVctLighting() returns
  hlmsVctLighting,
  \* addresses of the objects that are allocated and not deleted
  heap,
  \* instances whose destructor has not run
  giAlive,
  \* NoAbort, or the message of the failed assertion / the crash
  giAborted,
  \* history: a delete was applied to an address that was not allocated
  giDoubleFree,
  \* history: per instance, TRUE iff its last completed SetEnabled call was
  \* SetEnabled(true) and no Destroy completed on it since
  giRequested,
  \* history: the last call made, with what held when it was made
  giLastCall

VARIABLES
  \* Ogre2NativeWindowPrivate::window: TRUE while it is not null
  winWindow,
  \* Ogre2NativeWindowPrivate::workspace: Null or the address of a workspace
  winWorkspace,
  \* Ogre::CompositorManager2: the workspaces added for the window and not
  \* removed, each with its address, external targets and camera
  winEngWorkspaces,
  \* Ogre::Window: focus, visibility and requested resolution
  winFocused, winVisible, winResolution,
  \* the calls the last operation on the window made into the engine
  winCalls,
  \* history: the last operation on the window, and the camera given to it
  winLastCall

VARIABLES
  \* Ogre2GpuRaysPrivate: the fields of the sensor
  ogreCamera, cubeUVTexture, cubeFaceIdx, w2nd, h2nd,
  matFirstPass, matSecondPass, firstPassTextures, secondPassTexture,
  ogreCompositorWorkspace1st, ogreCompositorWorkspace2nd,
  ogreCompositorWorkspaceDef1st, ogreCompositorNodeDef1st,
  ogreCompositorWorkspaceDef2nd, ogreCompositorNodeDef2nd,
  gpuRaysBuffer, gpuRaysScan,
  \* Ogre::TextureGpuManager: the textures registered
  engTextures,
  \* Ogre::MaterialManager: the materials registered for the sensor
  engMaterials,
  \* Ogre::CompositorManager2: the workspaces added and not removed
  engWorkspaces,
  \* the workspaces whose setEnabled(true) is in effect
  engEnabled,
  \* Ogre::CompositorManager2: workspace and node definitions
  engWorkspaceDefs, engNodeDefs,
  \* the floats held by the second pass texture
  secondPassPixels,
  \* the callbacks connected to newGpuRaysFrame
  subscribers,
  \* per callback, the frames the last call delivered to it
  delivered,
  \* how many times the last call triggered newGpuRaysFrame
  triggered,
  \* the floats in the destination of the last Copy
  copyDest,
  \* where Render is: "idle", "frame1" (inside the first renderOneFrame),
  \* "frame2" (inside the second)
  renderPc,
  \* the sets of enabled workspaces renderOneFrame found in the last Render
  frameLog,
  \* NoAbort or the crash
  raysAborted,
  \* history: the last call made on the sensor
  raysLastCall,
  \* history: the second pass texture contents the last PostRender read
  lastRead

rayVars == <<ogreCamera, cubeUVTexture, cubeFaceIdx, w2nd, h2nd,
             matFirstPass, matSecondPass, firstPassTextures,
             secondPassTexture, ogreCompositorWorkspace1st,
             ogreCompositorWorkspace2nd, ogreCompositorWorkspaceDef1st,
             ogreCompositorNodeDef1st, ogreCompositorWorkspaceDef2nd,
             ogreCompositorNodeDef2nd, gpuRaysBuffer, gpuRaysScan,
             engTextures, engMaterials, engWorkspaces, engEnabled,
             engWorkspaceDefs, engNodeDefs, secondPassPixels, subscribers,
             delivered, triggered, copyDest, renderPc, frameLog,
             raysAborted, raysLastCall, lastRead>>

winVars == <<winWindow, winWorkspace, winEngWorkspaces, winFocused,
             winVisible, winResolution, winCalls, winLastCall>>

giVars == <<voxelizer, vctLighting, hlmsVctLighting, heap, giAlive,
            giAborted, giDoubleFree, giRequested, giLastCall>>

vars == <<giVars, rayVars, winVars>>

\* a call on a GI instance leaves the sensor alone, and the other way round
GiOnly == UNCHANGED <<rayVars, winVars>>
RaysOnly == UNCHANGED <<giVars, winVars>>
WinOnly == UNCHANGED <<giVars, rayVars>>

(* ------------------- Ogre2GlobalIlluminationVct ------------------------ *)

\* Enabled without its null test: an instance with no lighting compares its
\* null pointer with HlmsPbs
Enabled_NoNullTest(i) == hlmsVctLighting = vctLighting[i]

\* Ogre2GlobalIlluminationVct::Enabled
Enabled(i) ==
  IF vctLighting[i] = Null
    THEN FALSE
    ELSE hlmsVctLighting = vctLighting[i]

\* SetEnabled with its assertions left out
ActiveIsNullOrOurs_Unchecked(i) == TRUE

\* the condition of both GZ_ASSERTs of SetEnabled
ActiveIsNullOrOurs(i) ==
  hlmsVctLighting = Null \/ hlmsVctLighting = vctLighting[i]

\* Build creating a VctLighting on every call
NeedsNewLighting_Always(i) == TRUE

\* Build: "if (this->dataPtr->vctLighting == nullptr)"
NeedsNewLighting(i) == vctLighting[i] = Null

\* addresses operator new may return
FreeAddr == Addr \ heap

\* what a call records about the state it was made in
CallRecord(op, i, arg) ==
  [op |-> op, inst |-> i, arg |-> arg,
   wasEnabled |-> Enabled(i)]

GiRunning == giAborted = NoAbort

\* The part of Build that changes state: the voxelizer is used first (a null
\* voxelizer ends the process), then the lighting is created if there is none,
\* then LightingChanged asserts that the lighting exists.
BuildBody(i, a) ==
  IF voxelizer[i] = Null
    THEN /\ giAborted' = MsgNullDeref
         /\ UNCHANGED <<vctLighting, heap>>
    ELSE /\ IF NeedsNewLighting(i)
              THEN /\ a \in FreeAddr
                   /\ vctLighting' = [vctLighting EXCEPT ![i] = a]
                   /\ heap' = heap \cup {a}
              ELSE /\ a = Null
                   /\ UNCHANGED <<vctLighting, heap>>
         /\ giAborted' = IF vctLighting'[i] # Null
                           THEN NoAbort ELSE MsgDidYouCallBuild

\* Ogre2GlobalIlluminationVct::Init
Init_(i) ==
  /\ GiRunning /\ i \in giAlive
  /\ GiOnly
  /\ \E a \in FreeAddr :
       /\ voxelizer' = [voxelizer EXCEPT ![i] = a]
       /\ heap' = heap \cup {a}
  /\ giLastCall' = CallRecord("Init", i, FALSE)
  /\ UNCHANGED <<vctLighting, hlmsVctLighting, giAlive, giAborted,
                 giDoubleFree, giRequested>>

\* Ogre2GlobalIlluminationVct::Build
Build(i) ==
  /\ GiRunning /\ i \in giAlive
  /\ GiOnly
  /\ \E a \in Addr \cup {Null} : BuildBody(i, a)
  /\ giLastCall' = CallRecord("Build", i, FALSE)
  /\ UNCHANGED <<voxelizer, hlmsVctLighting, giAlive, giDoubleFree,
                 giRequested>>

\* Ogre2GlobalIlluminationVct::UpdateLighting, which is LightingChanged
UpdateLighting(i) ==
  /\ GiRunning /\ i \in giAlive
  /\ GiOnly
  /\ giAborted' = IF vctLighting[i] # Null THEN NoAbort ELSE MsgDidYouCallBuild
  /\ giLastCall' = CallRecord("UpdateLighting", i, FALSE)
  /\ UNCHANGED <<voxelizer, vctLighting, hlmsVctLighting, heap, giAlive,
                 giDoubleFree, giRequested>>

\* Ogre2GlobalIlluminationVct::SetEnabled
SetEnabled(i, enabled) ==
  /\ GiRunning /\ i \in giAlive
  /\ GiOnly
  /\ giLastCall' = CallRecord("SetEnabled", i, enabled)
  /\ UNCHANGED <<voxelizer, giAlive, giDoubleFree>>
  /\ IF ~ActiveIsNullOrOurs(i)
       THEN /\ giAborted' = IF enabled THEN MsgAlreadyActive ELSE MsgNotUs
            /\ UNCHANGED <<vctLighting, heap, hlmsVctLighting,
                           giRequested>>
       ELSE IF enabled
         THEN /\ IF vctLighting[i] = Null
                   THEN \E a \in Addr \cup {Null} : BuildBody(i, a)
                   ELSE /\ giAborted' = NoAbort
                        /\ UNCHANGED <<vctLighting, heap>>
              /\ IF giAborted' = NoAbort
                   THEN /\ hlmsVctLighting' = vctLighting'[i]
                        /\ giRequested' = [giRequested EXCEPT ![i] = TRUE]
                   ELSE UNCHANGED <<hlmsVctLighting, giRequested>>
         ELSE /\ hlmsVctLighting' = Null
              /\ giRequested' = [giRequested EXCEPT ![i] = FALSE]
              /\ UNCHANGED <<vctLighting, heap, giAborted>>

\* Destroy deleting the lighting without the SetEnabled(false) before it
HlmsAfterDestroy_StillBound(i) == hlmsVctLighting

\* Destroy: "if (this->Enabled()) this->SetEnabled(false);" - the assertion of
\* SetEnabled(false) holds there, because Enabled() is one of its disjuncts
HlmsAfterDestroy(i) ==
  IF Enabled(i) THEN Null ELSE hlmsVctLighting

\* Destroy leaving the deleted lighting's address in vctLighting
LightingAfterDelete_Dangling(i) == vctLighting[i]

\* Destroy: "this->dataPtr->vctLighting = nullptr;" after the delete
LightingAfterDelete(i) == Null

\* Destroy: "this->dataPtr->voxelizer = nullptr;" after the delete
VoxelizerAfterDelete(i) == Null

\* the pointers Destroy passes to delete
DestroyDeletes(i) ==
  {p \in {vctLighting[i], voxelizer[i]} : p # Null}

\* The state changes of Destroy
DestroyBody(i) ==
  /\ hlmsVctLighting' = HlmsAfterDestroy(i)
  /\ vctLighting' = [vctLighting EXCEPT ![i] =
                       IF @ # Null THEN LightingAfterDelete(i) ELSE @]
  /\ voxelizer' = [voxelizer EXCEPT ![i] =
                     IF @ # Null THEN VoxelizerAfterDelete(i) ELSE @]
  /\ heap' = heap \ DestroyDeletes(i)
  /\ giDoubleFree' = (giDoubleFree \/ ~(DestroyDeletes(i) \subseteq heap))
  /\ giRequested' = [giRequested EXCEPT ![i] = FALSE]
  /\ UNCHANGED giAborted

\* Ogre2GlobalIlluminationVct::Destroy
Destroy(i) ==
  /\ GiRunning /\ i \in giAlive
  /\ GiOnly
  /\ DestroyBody(i)
  /\ giLastCall' = CallRecord("Destroy", i, FALSE)
  /\ UNCHANGED giAlive

\* Ogre2GlobalIlluminationVct::~Ogre2GlobalIlluminationVct
Destructor(i) ==
  /\ GiRunning /\ i \in giAlive
  /\ GiOnly
  /\ DestroyBody(i)
  /\ giAlive' = giAlive \ {i}
  /\ giLastCall' = CallRecord("Destructor", i, FALSE)


(* --------------------------- Ogre2GpuRays ------------------------------ *)

Faces == 0..MaxFace
Subs == 1..MaxSubscribers
\* a null pointer to an engine object; engine objects are <<kind, index>>
NullObj == <<"null", 0>>
SamplerTex == <<"samplerTex", 0>>
SecondPassTex == <<"second_pass", 0>>
FirstPassTex(f) == <<"first_pass", f>>
Workspace1st(f) == <<"workspace1st", f>>
Workspace2nd == <<"workspace2nd", 0>>
\* "GpuRays1stPassWorkspace_" + Name(), and its "/Node"
WsDefName1st == "GpuRays1stPassWorkspace_rays"
NodeDefName1st == "GpuRays1stPassWorkspace_rays/Node"
WsDefName2nd == "GpuRays2ndPassWorkspace_rays"
NodeDefName2nd == "GpuRays2ndPassWorkspace_rays/Node"
\* Name() + "_GpuRaysScan1st" and Name() + "_GpuRaysScan2nd"
MatName1st == "rays_GpuRaysScan1st"
MatName2nd == "rays_GpuRaysScan2nd"
\* a null float pointer, and a buffer of floats
NullBuf == [null |-> TRUE, data |-> <<>>]
Buf(d) == [null |-> FALSE, data |-> d]
\* "this->channels = 3u" of the constructor
Channels == 3
\* the format string PostRender passes to the event
FrameFormat == "PF_FLOAT32_RGB"

RaysRunning == raysAborted = NoAbort
RaysIdle == RaysRunning /\ renderPc = "idle"

\* the floats of a texture of n floats whose first one is v
Pixels(v, n) == [k \in 1..n |-> (v + k - 1) % (MaxPixel + 1)]

\* the first n floats of d, as memcpy copies them
CopyFloats(d, n) == SubSeq(d, 1, n)

NoDelivery == [s \in Subs |-> <<>>]

\* Ogre2GpuRays::Data
Data == IF gpuRaysScan.null THEN "nullptr" ELSE "gpuRaysScan"

\* the engine state that only the Setup functions and Destroy change
pipelineVars == <<ogreCamera, cubeUVTexture, cubeFaceIdx, w2nd, h2nd,
                  matFirstPass, matSecondPass, firstPassTextures,
                  secondPassTexture, ogreCompositorWorkspace1st,
                  ogreCompositorWorkspace2nd, ogreCompositorWorkspaceDef1st,
                  ogreCompositorNodeDef1st, ogreCompositorWorkspaceDef2nd,
                  ogreCompositorNodeDef2nd, engTextures, engMaterials,
                  engWorkspaces, engWorkspaceDefs, engNodeDefs>>

\* Ogre2GpuRays::Ogre2GpuRays, and an engine with nothing of the sensor in it
InitRays ==
  /\ ogreCamera = FALSE
  /\ cubeUVTexture = NullObj
  /\ cubeFaceIdx = {}
  /\ w2nd = 0 /\ h2nd = 0
  /\ matFirstPass = "" /\ matSecondPass = ""
  /\ firstPassTextures = [f \in Faces |-> NullObj]
  /\ secondPassTexture = NullObj
  /\ ogreCompositorWorkspace1st = [f \in Faces |-> NullObj]
  /\ ogreCompositorWorkspace2nd = NullObj
  /\ ogreCompositorWorkspaceDef1st = "" /\ ogreCompositorNodeDef1st = ""
  /\ ogreCompositorWorkspaceDef2nd = "" /\ ogreCompositorNodeDef2nd = ""
  /\ gpuRaysBuffer = NullBuf /\ gpuRaysScan = NullBuf
  /\ engTextures = {} /\ engMaterials = {}
  /\ engWorkspaces = {} /\ engEnabled = {}
  /\ engWorkspaceDefs = {} /\ engNodeDefs = {}
  /\ secondPassPixels = <<>>
  /\ subscribers = {}
  /\ delivered = NoDelivery
  /\ triggered = 0
  /\ copyDest = <<>>
  /\ renderPc = "idle"
  /\ frameLog = <<>>
  /\ raysAborted = NoAbort
  /\ raysLastCall = "none"
  /\ lastRead = <<>>

\* Ogre2GpuRays::Init: CreateCamera and CreateRenderTexture; the scene calls
\* it once, when it creates the sensor
RaysInit ==
  /\ RaysIdle /\ RaysOnly
  /\ ~ogreCamera
  /\ ogreCamera' = TRUE
  /\ raysLastCall' = "Init"
  /\ delivered' = NoDelivery /\ triggered' = 0
  /\ UNCHANGED <<cubeUVTexture, cubeFaceIdx, w2nd, h2nd, matFirstPass,
                 matSecondPass, firstPassTextures, secondPassTexture,
                 ogreCompositorWorkspace1st, ogreCompositorWorkspace2nd,
                 ogreCompositorWorkspaceDef1st, ogreCompositorNodeDef1st,
                 ogreCompositorWorkspaceDef2nd, ogreCompositorNodeDef2nd,
                 gpuRaysBuffer, gpuRaysScan, engTextures, engMaterials,
                 engWorkspaces, engEnabled, engWorkspaceDefs, engNodeDefs,
                 secondPassPixels, subscribers, copyDest, renderPc, frameLog,
                 raysAborted, lastRead>>

\* Ogre2GpuRays::ConnectNewGpuRaysFrame
ConnectNewGpuRaysFrame(s) ==
  /\ RaysIdle /\ RaysOnly
  /\ s \notin subscribers
  /\ subscribers' = subscribers \cup {s}
  /\ raysLastCall' = "ConnectNewGpuRaysFrame"
  /\ delivered' = NoDelivery /\ triggered' = 0
  /\ UNCHANGED <<pipelineVars, gpuRaysBuffer, gpuRaysScan, engEnabled,
                 secondPassPixels, copyDest, renderPc, frameLog, raysAborted,
                 lastRead>>

\* CreateGpuRaysTextures: ConfigureCamera (SetRangeCount), CreateSampleTexture,
\* Setup1stPass, Setup2ndPass.  rc and vrc are RangeCount() and
\* VerticalRangeCount(), faces the cube faces SampleCubemap gives for the rays,
\* v the first float of the new second pass texture.
CreateGpuRaysTextures(rc, vrc, faces, v) ==
  /\ w2nd' = rc /\ h2nd' = vrc
  /\ cubeUVTexture' = SamplerTex
  /\ cubeFaceIdx' = cubeFaceIdx \cup faces
  /\ matFirstPass' = MatName1st
  /\ ogreCompositorWorkspaceDef1st' = WsDefName1st
  /\ ogreCompositorNodeDef1st' =
       IF WsDefName1st \notin engWorkspaceDefs
         THEN NodeDefName1st ELSE ogreCompositorNodeDef1st
  /\ firstPassTextures' =
       [f \in Faces |-> IF f \in cubeFaceIdx'
                          THEN FirstPassTex(f) ELSE firstPassTextures[f]]
  /\ ogreCompositorWorkspace1st' =
       [f \in Faces |-> IF f \in cubeFaceIdx'
                          THEN Workspace1st(f)
                          ELSE ogreCompositorWorkspace1st[f]]
  /\ secondPassTexture' = SecondPassTex
  /\ matSecondPass' = MatName2nd
  /\ ogreCompositorWorkspaceDef2nd' = WsDefName2nd
  /\ ogreCompositorNodeDef2nd' =
       IF WsDefName2nd \notin engWorkspaceDefs
         THEN NodeDefName2nd ELSE ogreCompositorNodeDef2nd
  /\ ogreCompositorWorkspace2nd' = Workspace2nd
  /\ engTextures' = engTextures \cup {SamplerTex, SecondPassTex}
                      \cup {FirstPassTex(f) : f \in cubeFaceIdx'}
  /\ engMaterials' = engMaterials \cup {MatName1st, MatName2nd}
  /\ engWorkspaceDefs' = engWorkspaceDefs \cup {WsDefName1st, WsDefName2nd}
  /\ engNodeDefs' = engNodeDefs \cup {NodeDefName1st, NodeDefName2nd}
  \* addWorkspace(..., false): the workspaces are created disabled
  /\ engWorkspaces' = engWorkspaces \cup {Workspace2nd}
                        \cup {Workspace1st(f) : f \in cubeFaceIdx'}
  /\ engEnabled' = engEnabled
  /\ secondPassPixels' = Pixels(v, rc * vrc * Channels)

\* the face sets a scan of rc x vrc rays can produce: every ray adds one face
FaceSets(rc, vrc) ==
  {fs \in SUBSET Faces : fs # {} /\ Cardinality(fs) <= rc * vrc}

\* Ogre2GpuRays::PreRender
PreRender ==
  /\ RaysIdle /\ RaysOnly
  /\ raysLastCall' = "PreRender"
  /\ delivered' = NoDelivery /\ triggered' = 0
  /\ UNCHANGED <<ogreCamera, gpuRaysBuffer, gpuRaysScan, subscribers,
                 copyDest, renderPc, frameLog, lastRead>>
  /\ IF cubeUVTexture # NullObj
       THEN UNCHANGED <<cubeUVTexture, cubeFaceIdx, w2nd, h2nd, matFirstPass,
                        matSecondPass, firstPassTextures, secondPassTexture,
                        ogreCompositorWorkspace1st,
                        ogreCompositorWorkspace2nd,
                        ogreCompositorWorkspaceDef1st,
                        ogreCompositorNodeDef1st,
                        ogreCompositorWorkspaceDef2nd,
                        ogreCompositorNodeDef2nd, engTextures, engMaterials,
                        engWorkspaces, engEnabled, engWorkspaceDefs,
                        engNodeDefs, secondPassPixels, raysAborted>>
       ELSE IF ~ogreCamera
         \* ConfigureCamera: ogreCamera->setNearClipDistance on a null camera
         THEN /\ raysAborted' = MsgNullDeref
              /\ UNCHANGED <<cubeUVTexture, cubeFaceIdx, w2nd, h2nd,
                             matFirstPass, matSecondPass, firstPassTextures,
                             secondPassTexture, ogreCompositorWorkspace1st,
                             ogreCompositorWorkspace2nd,
                             ogreCompositorWorkspaceDef1st,
                             ogreCompositorNodeDef1st,
                             ogreCompositorWorkspaceDef2nd,
                             ogreCompositorNodeDef2nd, engTextures,
                             engMaterials, engWorkspaces, engEnabled,
                             engWorkspaceDefs, engNodeDefs, secondPassPixels>>
         ELSE /\ \E rc \in 1..MaxRangeCount, vrc \in 1..MaxVerticalRangeCount,
                    v \in 0..MaxPixel :
                   \E faces \in FaceSets(rc, vrc) :
                     CreateGpuRaysTextures(rc, vrc, faces, v)
              /\ UNCHANGED raysAborted

\* the first pass workspaces UpdateRenderTarget1stPass loops over
FirstPassWorkspaces == {ogreCompositorWorkspace1st[f] : f \in cubeFaceIdx}

\* the faces of cubeFaceIdx whose workspace pointer is null
NullWorkspaceFaces ==
  {f \in cubeFaceIdx : ogreCompositorWorkspace1st[f] = NullObj}

\* the workspaces the first loop enables before it meets a null pointer (the
\* std::set is walked in ascending order)
EnabledBeforeFirstNull ==
  {ogreCompositorWorkspace1st[f] :
     f \in {g \in cubeFaceIdx : \A n \in NullWorkspaceFaces : g < n}}

\* UpdateRenderTarget1stPass leaving its workspaces enabled
EnabledAfter1stPass_NotDisabled == engEnabled

\* UpdateRenderTarget1stPass: the second loop, setEnabled(false)
EnabledAfter1stPass == engEnabled \ FirstPassWorkspaces

\* Render, up to the inside of the first renderOneFrame
RenderFrame1 ==
  /\ RaysIdle /\ RaysOnly
  /\ raysLastCall' = "Render"
  /\ delivered' = NoDelivery /\ triggered' = 0
  /\ engEnabled' = engEnabled \cup EnabledBeforeFirstNull
  /\ IF NullWorkspaceFaces # {}
       THEN /\ raysAborted' = MsgNullDeref
            /\ frameLog' = <<>>
            /\ UNCHANGED renderPc
       ELSE /\ renderPc' = "frame1"
            /\ frameLog' = <<engEnabled'>>
            /\ UNCHANGED raysAborted
  /\ UNCHANGED <<pipelineVars, gpuRaysBuffer, gpuRaysScan, secondPassPixels,
                 subscribers, copyDest, lastRead>>

\* Render, from the return of the first renderOneFrame to the inside of the
\* second one, which draws the second pass texture
RenderFrame2 ==
  /\ RaysRunning /\ renderPc = "frame1" /\ RaysOnly
  /\ IF ogreCompositorWorkspace2nd \notin engWorkspaces
       THEN /\ raysAborted' = MsgNullDeref
            /\ engEnabled' = EnabledAfter1stPass
            /\ UNCHANGED <<renderPc, frameLog, secondPassPixels>>
       ELSE /\ engEnabled' =
                 EnabledAfter1stPass \cup {ogreCompositorWorkspace2nd}
            /\ renderPc' = "frame2"
            /\ frameLog' = Append(frameLog, engEnabled')
            /\ \E v \in 0..MaxPixel :
                 secondPassPixels' = Pixels(v, w2nd * h2nd * Channels)
            /\ UNCHANGED raysAborted
  /\ UNCHANGED <<pipelineVars, gpuRaysBuffer, gpuRaysScan, subscribers,
                 delivered, triggered, copyDest, raysLastCall, lastRead>>

\* Render, from the return of the second renderOneFrame to its own return
RenderReturn ==
  /\ RaysRunning /\ renderPc = "frame2" /\ RaysOnly
  /\ engEnabled' = engEnabled \ {ogreCompositorWorkspace2nd}
  /\ renderPc' = "idle"
  /\ UNCHANGED <<pipelineVars, gpuRaysBuffer, gpuRaysScan, secondPassPixels,
                 subscribers, delivered, triggered, copyDest, frameLog,
                 raysAborted, raysLastCall, lastRead>>

\* memcpy(dst, src, n floats) into a buffer that holds old
Memcpy(old, src, n) ==
  [k \in 1..(IF Len(old) > n THEN Len(old) ELSE n) |->
     IF k <= n THEN src[k] ELSE old[k]]

\* new float[len] when the pointer is null: the floats are not initialised,
\* PostRender overwrites all of them before they are read
Allocated(buf, len) ==
  IF buf.null THEN [k \in 1..len |-> 0] ELSE buf.data

\* PostRender passing the raw buffer to the event
FramePointer_RawBuffer == "gpuRaysBuffer"

\* PostRender: the pointer given to newGpuRaysFrame
FramePointer == "gpuRaysScan"

\* PostRender filling the outgoing scan from the raw buffer as it was before
\* the blit
ScanSource_StaleBuffer(len) == Allocated(gpuRaysBuffer, len)

\* PostRender: the source of the second memcpy, the raw buffer just filled
ScanSource(len) == gpuRaysBuffer'.data

\* Ogre2GpuRays::PostRender
PostRender ==
  /\ RaysIdle /\ RaysOnly
  /\ raysLastCall' = "PostRender"
  /\ UNCHANGED <<pipelineVars, engEnabled, secondPassPixels, subscribers,
                 copyDest, renderPc, frameLog>>
  /\ IF cubeUVTexture = NullObj
       \* convertFromTexture on a null texture
       THEN /\ raysAborted' = MsgNullDeref
            /\ delivered' = NoDelivery /\ triggered' = 0
            /\ UNCHANGED <<gpuRaysBuffer, gpuRaysScan, lastRead>>
       ELSE LET len == w2nd * h2nd * Channels IN
            /\ gpuRaysBuffer' =
                 Buf(Memcpy(Allocated(gpuRaysBuffer, len),
                            secondPassPixels, len))
            /\ gpuRaysScan' =
                 Buf(Memcpy(Allocated(gpuRaysScan, len), ScanSource(len), len))
            /\ triggered' = 1
            /\ delivered' =
                 [s \in Subs |->
                    IF s \in subscribers
                      THEN <<[frame |-> FramePointer,
                              floats |-> gpuRaysScan'.data,
                              width |-> w2nd, height |-> h2nd,
                              channels |-> Channels,
                              format |-> FrameFormat]>>
                      ELSE <<>>]
            /\ lastRead' = secondPassPixels
            /\ UNCHANGED raysAborted

\* Copy: the literal 3 of "width * height * 3 * sizeof(float)"
CopyChannels == 3

\* Copy: the number of floats copied
CopyLength == w2nd * h2nd * CopyChannels

\* Ogre2GpuRays::Copy
Copy ==
  /\ RaysIdle /\ RaysOnly
  /\ raysLastCall' = "Copy"
  /\ delivered' = NoDelivery /\ triggered' = 0
  /\ IF gpuRaysScan.null /\ CopyLength > 0
       \* memcpy reading from a null pointer
       THEN /\ raysAborted' = MsgNullDeref
            /\ UNCHANGED copyDest
       ELSE /\ copyDest' = CopyFloats(gpuRaysScan.data, CopyLength)
            /\ UNCHANGED raysAborted
  /\ UNCHANGED <<pipelineVars, gpuRaysBuffer, gpuRaysScan, engEnabled,
                 secondPassPixels, subscribers, renderPc, frameLog, lastRead>>

\* Destroy: the first pass workspaces it removes, those of cubeFaceIdx whose
\* pointer is not null
Removed1stWorkspaces ==
  {ogreCompositorWorkspace1st[f] : f \in cubeFaceIdx} \ {NullObj}

\* Destroy: the second pass workspace it removes
Removed2ndWorkspaces ==
  IF ogreCompositorWorkspaceDef2nd # ""
    THEN {ogreCompositorWorkspace2nd} ELSE {}

\* Ogre2GpuRays::Destroy
RaysDestroy ==
  /\ RaysIdle /\ RaysOnly
  /\ raysLastCall' = "Destroy"
  /\ delivered' = NoDelivery /\ triggered' = 0
  /\ gpuRaysBuffer' = NullBuf
  /\ gpuRaysScan' = NullBuf
  /\ ogreCompositorWorkspace1st' =
       [f \in Faces |-> IF f \in cubeFaceIdx
                          THEN NullObj ELSE ogreCompositorWorkspace1st[f]]
  /\ engWorkspaces' =
       (engWorkspaces \ Removed1stWorkspaces) \ Removed2ndWorkspaces
  /\ engEnabled' = engEnabled \cap engWorkspaces'
  /\ engWorkspaceDefs' =
       engWorkspaceDefs \ {ogreCompositorWorkspaceDef1st,
                           ogreCompositorWorkspaceDef2nd}
  /\ engNodeDefs' =
       engNodeDefs \ ({ogreCompositorNodeDef1st :
                         d \in {ogreCompositorWorkspaceDef1st} \ {""}}
                      \cup {ogreCompositorNodeDef2nd :
                              d \in {ogreCompositorWorkspaceDef2nd} \ {""}})
  /\ ogreCompositorWorkspaceDef1st' = ""
  /\ ogreCompositorWorkspaceDef2nd' = ""
  \* the removal of the textures and of the materials is commented out
  /\ UNCHANGED <<engTextures, engMaterials>>
  /\ UNCHANGED <<ogreCamera, cubeUVTexture, cubeFaceIdx, w2nd, h2nd,
                 matFirstPass, matSecondPass, firstPassTextures,
                 secondPassTexture, ogreCompositorWorkspace2nd,
                 ogreCompositorNodeDef1st, ogreCompositorNodeDef2nd,
                 secondPassPixels, subscribers, copyDest, renderPc, frameLog,
                 raysAborted, lastRead>>

NextRays ==
  \/ RaysInit
  \/ \E s \in Subs : ConnectNewGpuRaysFrame(s)
  \/ PreRender
  \/ RenderFrame1
  \/ RenderFrame2
  \/ RenderReturn
  \/ PostRender
  \/ Copy
  \/ RaysDestroy


(* ------------------------- Ogre2NativeWindow --------------------------- *)

Cams == 1..NumCams
WsAddr == 1..MaxWsAddr
\* what Draw can be given: an Ogre2Camera, a camera of another render engine,
\* or a null CameraPtr
CameraArgs ==
  [kind : {"ogre2"}, id : Cams] \cup [kind : {"other", "null"}, id : {0}]
NoCamera == [kind |-> "null", id |-> 0]
\* window->getTexture()
WindowTexture == <<"window", 0>>
\* camera->renderTexture->RenderTarget(): every camera has a texture of its own
CameraTexture(c) == <<"camera", c.id>>

\* Draw taking every non-null camera for an Ogre2Camera
IsOgre2Camera_AnyNonNull(c) == c.kind # "null"

\* Draw: "dynamic_cast<Ogre2Camera *>(_camera.get())" is not null
IsOgre2Camera(c) == c.kind = "ogre2"

\* the workspace winWorkspace points to
WorkspaceAt(a) == CHOOSE w \in winEngWorkspaces : w.addr = a

\* workspace->getExternalRenderTargets()[1]
ExternalTarget1 == WorkspaceAt(winWorkspace).targets[2]

\* Draw building a workspace only when the window has none
NeedsNewWorkspace_OnlyWhenNull(c) == winWorkspace = Null

\* Draw: "!workspace || workspace->getExternalRenderTargets()[1] != texture"
NeedsNewWorkspace(c) ==
  winWorkspace = Null \/ ExternalTarget1 # CameraTexture(c)

\* Ogre2NativeWindow::Ogre2NativeWindow
InitWin ==
  /\ winWindow = TRUE
  /\ winWorkspace = Null
  /\ winEngWorkspaces = {}
  /\ winFocused = FALSE /\ winVisible = FALSE
  /\ winResolution = <<1, 1>>
  /\ winCalls = <<>>
  /\ winLastCall = [op |-> "none", camera |-> NoCamera]

\* Ogre2NativeWindow::NotifyFocused
NotifyFocused(focused) ==
  /\ winWindow /\ WinOnly
  /\ winFocused' = focused
  /\ winCalls' = <<"setFocused">>
  /\ winLastCall' = [op |-> "NotifyFocused", camera |-> NoCamera]
  /\ UNCHANGED <<winWindow, winWorkspace, winEngWorkspaces, winVisible,
                 winResolution>>

\* Ogre2NativeWindow::NotifyVisible
NotifyVisible(visible) ==
  /\ winWindow /\ WinOnly
  /\ winVisible' = visible
  /\ winCalls' = <<"_setVisible">>
  /\ winLastCall' = [op |-> "NotifyVisible", camera |-> NoCamera]
  /\ UNCHANGED <<winWindow, winWorkspace, winEngWorkspaces, winFocused,
                 winResolution>>

\* Ogre2NativeWindow::NotifyWindowMovedOrResized
NotifyWindowMovedOrResized ==
  /\ winWindow /\ WinOnly
  /\ winCalls' = <<"windowMovedOrResized">>
  /\ winLastCall' = [op |-> "NotifyWindowMovedOrResized", camera |-> NoCamera]
  /\ UNCHANGED <<winWindow, winWorkspace, winEngWorkspaces, winFocused,
                 winVisible, winResolution>>

\* Ogre2NativeWindow::RequestResolution
RequestResolution(width, height) ==
  /\ winWindow /\ WinOnly
  /\ winResolution' = <<width, height>>
  /\ winCalls' = <<"requestResolution">>
  /\ winLastCall' = [op |-> "RequestResolution", camera |-> NoCamera]
  /\ UNCHANGED <<winWindow, winWorkspace, winEngWorkspaces, winFocused,
                 winVisible>>

\* Ogre2NativeWindow::Draw
Draw(c) ==
  /\ winWindow /\ WinOnly
  /\ winLastCall' = [op |-> "Draw", camera |-> c]
  /\ UNCHANGED <<winWindow, winFocused, winVisible, winResolution>>
  /\ IF ~IsOgre2Camera(c)
       THEN /\ winCalls' = <<"gzwarn">>
            /\ UNCHANGED <<winWorkspace, winEngWorkspaces>>
       ELSE IF NeedsNewWorkspace(c)
         THEN LET kept == {w \in winEngWorkspaces : w.addr # winWorkspace}
              IN /\ \E a \in WsAddr \ {w.addr : w \in kept} :
                      /\ winWorkspace' = a
                      /\ winEngWorkspaces' =
                           kept \cup
                             {[addr |-> a,
                               targets |-> <<WindowTexture, CameraTexture(c)>>,
                               camera |-> c.id]}
                 /\ winCalls' =
                      (IF winWorkspace # Null
                         THEN <<"removeWorkspace">> ELSE <<>>)
                      \o <<"addWorkspace", "setEnabled(true)",
                           "CompositorManager2::_update", "setEnabled(false)",
                           "FlushGpuCommandsAndStartNewFrame">>
         ELSE /\ winCalls' = <<"_validateFinalTarget", "_beginUpdate",
                               "_update", "_endUpdate", "_swapFinalTarget",
                               "FlushGpuCommandsAndStartNewFrame">>
              /\ UNCHANGED <<winWorkspace, winEngWorkspaces>>

\* Ogre2NativeWindow::~Ogre2NativeWindow
WinDestructor ==
  /\ winWindow /\ WinOnly
  /\ winEngWorkspaces' = {w \in winEngWorkspaces : w.addr # winWorkspace}
  /\ winWorkspace' = Null
  /\ winWindow' = FALSE
  /\ winCalls' = (IF winWorkspace # Null THEN <<"removeWorkspace">> ELSE <<>>)
                 \o <<"destroyRenderWindow">>
  /\ winLastCall' = [op |-> "Destructor", camera |-> NoCamera]
  /\ UNCHANGED <<winFocused, winVisible, winResolution>>

NextWin ==
  \/ \E focused \in BOOLEAN : NotifyFocused(focused)
  \/ \E visible \in BOOLEAN : NotifyVisible(visible)
  \/ NotifyWindowMovedOrResized
  \/ \E width \in 1..MaxRes, height \in 1..MaxRes :
       RequestResolution(width, height)
  \/ \E c \in CameraArgs : Draw(c)
  \/ WinDestructor

\* Ogre2GlobalIlluminationVct::Ogre2GlobalIlluminationVct, for every instance,
\* and an HlmsPbs with no GI bound
InitGI ==
  /\ voxelizer = [i \in Inst |-> Null]
  /\ vctLighting = [i \in Inst |-> Null]
  /\ hlmsVctLighting = Null
  /\ heap = {}
  /\ giAlive = Inst
  /\ giAborted = NoAbort
  /\ giDoubleFree = FALSE
  /\ giRequested = [i \in Inst |-> FALSE]
  /\ giLastCall = [op |-> "none", inst |-> 1, arg |-> FALSE,
                   wasEnabled |-> FALSE]

Init == InitGI /\ InitRays /\ InitWin

Next ==
  \/ \E i \in Inst : Init_(i)
  \/ \E i \in Inst : Build(i)
  \/ \E i \in Inst : UpdateLighting(i)
  \/ \E i \in Inst, enabled \in BOOLEAN : SetEnabled(i, enabled)
  \/ \E i \in Inst : Destroy(i)
  \/ \E i \in Inst : Destructor(i)

Spec == Init /\ [][Next]_vars

SpecRays == Init /\ [][NextRays]_vars

SpecWin == Init /\ [][NextWin]_vars

(* ------------------- claims on the GI instances ------------------------ *)

GiStep(op, i) == giLastCall'.op = op /\ giLastCall'.inst = i

\* C1: in every reachable state at most one Ogre2GlobalIlluminationVct
\* instance sharing the HlmsPbs reports Enabled() = true.
C1_AtMostOneEnabled ==
  Cardinality({i \in Inst : Enabled(i)}) <= 1

\* C1 witness: an instance is enabled while SetEnabled(true) was tried on
\* another, built or not.
C1_Witness ==
  /\ giAborted = MsgAlreadyActive
  /\ \E i \in Inst : i # giLastCall.inst /\ Enabled(i)

\* C3: Enabled() is true exactly for the instances whose last completed
\* SetEnabled call was SetEnabled(true) with no Destroy completed since; such
\* an instance has been built (its lighting is an allocated object), and one
\* with no lighting is not enabled.
C3_EnabledIffRequested ==
  \A i \in Inst :
    /\ Enabled(i) <=> giRequested[i]
    /\ giRequested[i] => vctLighting[i] \in heap
    /\ vctLighting[i] = Null => ~Enabled(i)

\* C3 witness: Build has run on an instance that was enabled, and it still is,
\* while another instance exists that was never enabled.
C3_Witness ==
  /\ giLastCall.op = "Build" /\ giLastCall.wasEnabled
  /\ giAborted = NoAbort
  /\ Enabled(giLastCall.inst)
  /\ \E j \in Inst : j # giLastCall.inst /\ ~Enabled(j) /\ voxelizer[j] # Null

\* C4: SetEnabled(true) or SetEnabled(false) on an instance while another
\* instance's lighting is bound in HlmsPbs fails its assertion with the
\* message of its branch and leaves the binding unchanged; no SetEnabled(false)
\* disables an instance other than the receiver.
C4_ForeignSetEnabledAsserts ==
  [][\A i \in Inst :
       GiStep("SetEnabled", i) =>
         /\ (\E j \in Inst \ {i} : Enabled(j)) =>
              /\ giAborted' = IF giLastCall'.arg
                                THEN MsgAlreadyActive ELSE MsgNotUs
              /\ hlmsVctLighting' = hlmsVctLighting
         /\ \A j \in Inst \ {i} : Enabled(j) => Enabled(j)'
    ]_vars

\* C4 witness: SetEnabled(false) was called on an instance while another one
\* was enabled; the assertion failed and the other one is still enabled.
C4_Witness ==
  /\ giLastCall.op = "SetEnabled" /\ ~giLastCall.arg
  /\ giAborted = MsgNotUs
  /\ \E j \in Inst : j # giLastCall.inst /\ Enabled(j)

\* C7: UpdateLighting on an instance without lighting fails the assertion
\* "Incorrect usage detected. Did you call Build?"; a completed Build leaves an
\* allocated lighting object; only Destroy (or the destructor) of the instance
\* changes an existing lighting pointer; UpdateLighting on an instance with
\* lighting does not fail.
C7_UpdateLightingAssert ==
  [][\A i \in Inst :
       /\ GiStep("UpdateLighting", i) =>
            giAborted' = IF vctLighting[i] = Null
                           THEN MsgDidYouCallBuild ELSE NoAbort
       /\ (GiStep("Build", i) /\ giAborted' = NoAbort) =>
            vctLighting'[i] # Null
       /\ vctLighting'[i] # Null => vctLighting'[i] \in heap'
       /\ (vctLighting[i] # Null /\ vctLighting'[i] # vctLighting[i]) =>
            (GiStep("Destroy", i) \/ GiStep("Destructor", i))
    ]_vars

\* C7 witness: UpdateLighting ran on an instance whose lighting exists and
\* returned without failing.
C7_Witness ==
  /\ giLastCall.op = "UpdateLighting"
  /\ giAborted = NoAbort
  /\ vctLighting[giLastCall.inst] # Null

\* C8: Destroy (also run by the destructor) leaves the instance not enabled
\* with lighting and voxelizer null and their objects freed; HlmsPbs does not
\* keep the deleted lighting; if the instance was not enabled the binding of
\* HlmsPbs is unchanged; nothing is deleted twice.
C8_DestroyReleases ==
  [][\A i \in Inst :
       (GiStep("Destroy", i) \/ GiStep("Destructor", i)) =>
         /\ ~Enabled(i)'
         /\ vctLighting'[i] = Null /\ voxelizer'[i] = Null
         /\ \A p \in {vctLighting[i], voxelizer[i]} : p \notin heap'
         /\ hlmsVctLighting' # Null => hlmsVctLighting' \in heap'
         /\ Enabled(i) => hlmsVctLighting' = Null
         /\ ~Enabled(i) => hlmsVctLighting' = hlmsVctLighting
         /\ ~giDoubleFree'
    ]_vars

\* C8 witness: Destroy ran on an enabled instance while another instance holds
\* a lighting of its own.
C8_Witness ==
  /\ giLastCall.op = "Destroy" /\ giLastCall.wasEnabled
  /\ hlmsVctLighting = Null
  /\ \E j \in Inst : j # giLastCall.inst /\ vctLighting[j] # Null

(* ---------------------- claims on the sensor --------------------------- *)

\* every workspace the sensor has created and not removed
SensorWorkspaces ==
  {Workspace1st(f) : f \in cubeFaceIdx} \cup {Workspace2nd}

\* C2: while Render runs normally, inside the first frame exactly the first
\* pass workspaces of the faces in cubeFaceIdx are enabled, inside the second
\* frame only the second pass workspace is; outside Render no workspace of the
\* sensor is enabled; a Render that has returned rendered exactly two frames,
\* the first pass and then the second.
C2_RenderPassOrder ==
  RaysRunning =>
    /\ renderPc = "idle" => engEnabled \cap SensorWorkspaces = {}
    /\ renderPc = "frame1" =>
         /\ engEnabled = {Workspace1st(f) : f \in cubeFaceIdx}
         /\ Workspace2nd \notin engEnabled
         /\ frameLog = <<engEnabled>>
    /\ renderPc = "frame2" =>
         /\ engEnabled = {Workspace2nd}
         /\ Len(frameLog) = 2 /\ frameLog[2] = engEnabled
    /\ (raysLastCall = "Render" /\ renderPc = "idle") =>
         frameLog = <<{Workspace1st(f) : f \in cubeFaceIdx}, {Workspace2nd}>>

\* C2 witness: a Render over two cube faces has returned.
C2_Witness ==
  /\ RaysRunning /\ raysLastCall = "Render" /\ renderPc = "idle"
  /\ Len(frameLog) = 2
  /\ Cardinality(cubeFaceIdx) >= 2

\* C5: a PostRender that returns has triggered newGpuRaysFrame exactly once,
\* and every connected callback got one frame: the pointer Data() returns,
\* holding the floats just read from the second pass texture, with width
\* w2nd, height h2nd, 3 channels and format "PF_FLOAT32_RGB"; no other call
\* triggers the event.
C5_OneFramePerPostRender ==
  RaysRunning =>
    IF raysLastCall = "PostRender"
      THEN /\ triggered = 1
           /\ \A s \in Subs \ subscribers : delivered[s] = <<>>
           /\ \A s \in subscribers :
                /\ Len(delivered[s]) = 1
                /\ delivered[s][1].frame = Data
                /\ delivered[s][1].floats = lastRead
                /\ delivered[s][1].width = w2nd
                /\ delivered[s][1].height = h2nd
                /\ delivered[s][1].channels = 3
                /\ delivered[s][1].format = "PF_FLOAT32_RGB"
      ELSE triggered = 0 /\ delivered = NoDelivery

\* C5 witness: PostRender has run with a callback connected, after a Render.
C5_Witness ==
  /\ RaysRunning /\ raysLastCall = "PostRender"
  /\ subscribers # {}
  /\ Len(frameLog) = 2

\* C6: Data() is null before the first PostRender and after Destroy; otherwise
\* the scan holds exactly the w2nd*h2nd*3 floats the last PostRender read from
\* the second pass texture, whatever was rendered since, and so does the
\* destination of a Copy.
C6_ScanHoldsLastRead ==
  RaysRunning =>
    /\ lastRead = <<>> => Data = "nullptr"
    /\ raysLastCall = "Destroy" => Data = "nullptr"
    /\ Data # "nullptr" =>
         /\ gpuRaysScan.data = lastRead
         /\ Len(gpuRaysScan.data) = w2nd * h2nd * 3
    /\ (raysLastCall = "Copy" /\ Data # "nullptr") =>
         /\ copyDest = lastRead
         /\ Len(copyDest) = w2nd * h2nd * 3

\* C6 witness: Copy has run after a PostRender and a later Render that drew
\* other floats into the second pass texture.
C6_Witness ==
  /\ RaysRunning /\ raysLastCall = "Copy"
  /\ Data # "nullptr"
  /\ copyDest = lastRead
  /\ secondPassPixels # lastRead

\* C9, as claimed: after Destroy on a sensor whose pipeline was created, no
\* first pass texture, first pass material, first pass workspace, first pass
\* workspace definition or node definition of the sensor is registered.
C9_Destroy1stPassRemoved ==
  (RaysRunning /\ raysLastCall = "Destroy" /\ cubeUVTexture # NullObj) =>
    /\ \A f \in Faces : FirstPassTex(f) \notin engTextures
    /\ MatName1st \notin engMaterials
    /\ \A f \in Faces : Workspace1st(f) \notin engWorkspaces
    /\ WsDefName1st \notin engWorkspaceDefs
    /\ NodeDefName1st \notin engNodeDefs

(* ---------------------- claims on the window --------------------------- *)

\* C10: Draw with a camera that is not an Ogre2Camera (null, or of another
\* render engine) only warns: it adds and removes no workspace, renders
\* nothing, issues no GPU flush, and leaves the window's workspace as it was.
C10_DrawForeignCameraOnlyWarns ==
  [][(winLastCall'.op = "Draw" /\ winLastCall'.camera.kind # "ogre2") =>
       /\ winCalls' = <<"gzwarn">>
       /\ winWorkspace' = winWorkspace
       /\ winEngWorkspaces' = winEngWorkspaces
    ]_vars

\* C10 witness: Draw was given a camera of another render engine while the
\* window held a workspace, which is still there.
C10_Witness ==
  /\ winLastCall.op = "Draw" /\ winLastCall.camera.kind = "other"
  /\ winWorkspace # Null
  /\ winCalls = <<"gzwarn">>

\* the window's workspace pointer and the workspaces the compositor manager
\* holds for it agree: none and none, or one and that one
WindowOwns ==
  IF winWorkspace = Null
    THEN winEngWorkspaces = {}
    ELSE /\ Cardinality(winEngWorkspaces) = 1
         /\ \A w \in winEngWorkspaces : w.addr = winWorkspace

\* positions of a call in the sequence of engine calls the last operation made
CallIndex(call) == {k \in DOMAIN winCalls : winCalls[k] = call}

\* C11: the window owns at most one workspace at any time, and it matches
\* the last drawn camera: Draw adds a workspace exactly when there is none or
\* when the existing one's external target 1 is not the camera's render
\* texture, the old workspace is removed before the new one is added, after
\* every Draw given an Ogre2Camera the one workspace has the external targets
\* (window texture, that camera's render texture); no other operation but the
\* destructor touches the workspace, and the destructor removes it, calling
\* removeWorkspace only if one exists.
C11_WindowOwnsOneWorkspace ==
  [][/\ WindowOwns /\ WindowOwns'
     /\ (winLastCall'.op = "Draw" /\ winLastCall'.camera.kind = "ogre2") =>
          LET c == winLastCall'.camera
              added == CallIndex("addWorkspace")'
              removed == CallIndex("removeWorkspace")'
          IN /\ winWorkspace' # Null
             /\ WorkspaceAt(winWorkspace)'.targets =
                  <<WindowTexture, CameraTexture(c)>>
             /\ WorkspaceAt(winWorkspace)'.camera = c.id
             /\ (added # {}) <=>
                  (winWorkspace = Null \/ ExternalTarget1 # CameraTexture(c))
             /\ Cardinality(added) <= 1 /\ Cardinality(removed) <= 1
             /\ (removed # {}) <=> (added # {} /\ winWorkspace # Null)
             /\ \A r \in removed, a \in added : r < a
             /\ added = {} =>
                  (winWorkspace' = winWorkspace
                     /\ winEngWorkspaces' = winEngWorkspaces)
     /\ winLastCall'.op = "Destructor" =>
          /\ winWorkspace' = Null /\ winEngWorkspaces' = {}
          /\ (CallIndex("removeWorkspace")' # {}) <=> (winWorkspace # Null)
     /\ winLastCall'.op \notin {"Draw", "Destructor"} =>
          (winWorkspace' = winWorkspace
             /\ winEngWorkspaces' = winEngWorkspaces)
    ]_vars

\* C11 witness: the window held a workspace of another camera and Draw
\* replaced it: removeWorkspace came first, addWorkspace second, and the one
\* workspace left has the drawn camera's render texture as external target 1.
C11_Witness ==
  /\ winLastCall.op = "Draw" /\ winLastCall.camera.kind = "ogre2"
  /\ Len(winCalls) >= 2
  /\ winCalls[1] = "removeWorkspace" /\ winCalls[2] = "addWorkspace"
  /\ Cardinality(winEngWorkspaces) = 1
  /\ ExternalTarget1 = CameraTexture(winLastCall.camera)

====
